---- MODULE Spec2Model ----
(***************************************************************************)
(* Ingestion / enrichment / eviction pipeline of src/main.py:              *)
(* HeliusWebSocket (listener, resolver, enricher, registry, refresh) and   *)
(* PumpFunFetcher (change queue, queue processor, consumer cache).         *)
(*                                                                         *)
(* Conventions of the translation                                          *)
(*  - money and volumes are Python floats in the source; they are integers *)
(*    here and a float division x / n is the integer division x \div n.    *)
(*  - time.time() is the variable clock (minutes, the unit of age_minutes).*)
(*  - a Token is a mutable Python object: heap[ref] is the object, and the *)
(*    registry, the change queue and the consumer cache hold refs.         *)
(*  - the three tasks run on one asyncio event loop: a task runs without   *)
(*    interleaving from one await to the next, so one action is the code   *)
(*    between two awaits.                                                  *)
(***************************************************************************)
EXTENDS Integers, Sequences, FiniteSets, TLC

\* ------------------------------------------------------------------ bounds
NumAddr == 1          \* mints the chain mentions
MaxObjs == 2          \* Token objects alive at one time
MaxEvents == 2        \* change events put in one run
TickStep == 16        \* minutes the clock advances in one step
MaxTicks == 2         \* clock steps in one run
DeepEvents == 4       \* change events put in one run of the longer specification
ShiftStep == 3        \* minutes between two clock readings of the unbounded run
CountCap == 1         \* trades per token the unbounded run keeps count of
MaxLines == 3         \* log lines of the notification a classifier call is given
MaxHolders == 2       \* token accounts an enumeration lists
MaxTrades == 3        \* buys, and sells, counted on one token
MaxSessions == 2      \* start_monitoring calls in one run
MaxIx == 2            \* inner instructions of the transaction an extraction is given
MaxBalances == 2      \* post-transaction token balances of that transaction

\* --------------------------------------------------------- program constants
TOKENS_PER_REFRESH == 10
RETENTION_MINUTES == 30
GRADUATION_CAP == 69000
DEFAULT_MIN_MARKET_CAP == 1000
SOL == 0              \* "So11111111111111111111111111111111111111112"
NoMint == 0 - 1       \* a missing / None / empty mint
Absent == 0 - 1       \* a key that is not in the curve_data dict

Min(a, b) == IF a < b THEN a ELSE b
Max(a, b) == IF a > b THEN a ELSE b

\* ------------------------------------------------------- Event Classifier
\* A log line is the set of instruction markers it contains.
Markers == {"Create", "Buy", "Sell"}

\* the scan keeping its first match
LineType_FirstWins(line, cur) ==
    IF cur # "none" THEN cur
    ELSE IF "Create" \in line THEN "create"
    ELSE IF "Buy" \in line THEN "buy"
    ELSE IF "Sell" \in line THEN "sell"
    ELSE cur

LineType(line, cur) ==
    IF "Create" \in line THEN "create"
    ELSE IF "Buy" \in line THEN "buy"
    ELSE IF "Sell" \in line THEN "sell"
    ELSE cur

RECURSIVE ScanLogs(_, _)
ScanLogs(logs, cur) ==
    IF logs = <<>> THEN cur
    ELSE ScanLogs(Tail(logs), LineType(Head(logs), cur))

\* the event type, "none" for event_info["type"] = None (the function returns None)
parse_pump_fun_logs(logs) == ScanLogs(logs, "none")

\* process_log_notification up to the dispatch: a notification whose err member
\* is set is skipped before its logs are parsed
\* the dispatch without the test of the err member
Classification_ErrIgnored(frame) == parse_pump_fun_logs(frame.logs)

Classification(frame) ==
    IF frame.err THEN "none" ELSE parse_pump_fun_logs(frame.logs)

\* ------------------------------------------------------ Transaction Resolver
NoTx == [inner |-> <<>>, post |-> <<>>]

\* resps[i] is the answer to attempt i: kind "exc" (the request raised),
\* "error" (an explicit error member), "null" (no result yet), "result".
\* trace lists what the call did, in order: "post" for a request, "sleep" for
\* time.sleep(3).
RECURSIVE FetchAttempts(_, _, _)
FetchAttempts(resps, attempt, retries) ==
    IF attempt >= retries
    THEN [found |-> FALSE, tx |-> NoTx, attempts |-> attempt, trace |-> <<>>]
    ELSE LET r == resps[attempt + 1] IN
         IF r.kind = "exc"
         THEN [FetchAttempts(resps, attempt + 1, retries)
                   EXCEPT !.trace = <<"post">> \o @]
         ELSE IF r.kind = "error"
              THEN [found |-> FALSE, tx |-> NoTx, attempts |-> attempt + 1,
                    trace |-> <<"post">>]
         ELSE IF r.kind = "result"
              THEN [found |-> TRUE, tx |-> r.tx, attempts |-> attempt + 1,
                    trace |-> <<"post">>]
         ELSE [FetchAttempts(resps, attempt + 1, retries)
                   EXCEPT !.trace = (IF attempt < retries - 1
                                     THEN <<"post", "sleep">>
                                     ELSE <<"post">>) \o @]

\* the resolver giving up one attempt early
fetch_transaction_details_TwoTries(resps) == FetchAttempts(resps, 0, 2)

fetch_transaction_details(resps) == FetchAttempts(resps, 0, 3)

RECURSIVE FirstInitMint(_)
FirstInitMint(inner) ==
    IF inner = <<>> THEN NoMint
    ELSE LET ix == Head(inner) IN
         IF ix.type \in {"initializeMint", "initializeMint2"} /\ ix.mint # NoMint
         THEN ix.mint
         ELSE FirstInitMint(Tail(inner))

RECURSIVE FirstNonNativeMint(_)
FirstNonNativeMint(post) ==
    IF post = <<>> THEN NoMint
    ELSE IF Head(post) # NoMint /\ Head(post) # SOL THEN Head(post)
    ELSE FirstNonNativeMint(Tail(post))

\* the extraction trying the token balances before the inner instructions
extract_mint_from_create_tx_BalancesFirst(tx) ==
    IF FirstNonNativeMint(tx.post) # NoMint THEN FirstNonNativeMint(tx.post)
    ELSE FirstInitMint(tx.inner)

extract_mint_from_create_tx(tx) ==
    IF FirstInitMint(tx.inner) # NoMint THEN FirstInitMint(tx.inner)
    ELSE FirstNonNativeMint(tx.post)

\* -------------------------------------------------------------- Metadata
fetch_token_metadata(resp) ==
    IF resp.kind = "result" THEN [name |-> resp.name, symbol |-> resp.symbol]
    ELSE [name |-> "Unknown", symbol |-> "???"]

\* ----------------------------------------------------------- Holder count
\* the number of accounts listed as it is, and 0 when there is none to count
fetch_holder_count_Raw(resp) ==
    IF resp.kind = "result" THEN resp.count ELSE 0

\* resp.kind is "exc" (the request or the decoding raised), "none" (no result
\* member, or an empty one) or "result", with the number of token accounts
fetch_holder_count(resp) ==
    IF resp.kind = "result" THEN Max(resp.count, 1) ELSE 1

\* --------------------------------------------------------- Metric Enricher
curve_default ==
    [market_cap |-> 0, bonding_progress |-> 0, volume_5m |-> 0, volume_1h |-> 0,
     holders |-> 1, buys_5m |-> Absent, sells_5m |-> Absent]

\* min(100, (market_cap / 69000) * 100)
Progress(mc) == Min(100, (mc * 100) \div GRADUATION_CAP)

\* Each stage gives the dict after the stage and whether the function returned.
\* DexScreener: status "exc" | "non200" | "ok"; pairs a sequence of pairs;
\* a pair whose volume member is not an object raises after market_cap is set.
DexStage(cd, r) ==
    IF r.status # "ok" \/ r.pairs = <<>> THEN [cd |-> cd, done |-> FALSE]
    ELSE LET pair == r.pairs[1]
             mc   == IF pair.fdv = 0 THEN pair.marketCap ELSE pair.fdv
             v1   == pair.h1
             v5   == IF pair.m5 = 0 /\ v1 > 0 THEN v1 \div 12 ELSE pair.m5
         IN  IF ~pair.volume_ok
             THEN [cd |-> [cd EXCEPT !.market_cap = mc], done |-> FALSE]
             ELSE [cd |-> [cd EXCEPT !.market_cap = mc, !.volume_5m = v5,
                                     !.volume_1h = v1, !.buys_5m = pair.buys,
                                     !.sells_5m = pair.sells,
                                     !.bonding_progress = Progress(mc)],
                   done |-> mc > 0]

\* Birdeye: status as above; data present or empty.
BirdeyeStage(cd, r) ==
    IF r.status # "ok" \/ ~r.has_data THEN [cd |-> cd, done |-> FALSE]
    ELSE [cd |-> [cd EXCEPT !.market_cap = r.mc, !.volume_5m = r.v24h \div 288,
                            !.holders = IF r.holder = 0 THEN 1 ELSE r.holder,
                            !.bonding_progress = Progress(r.mc)],
          done |-> r.mc > 0]

\* pump.fun: the last stage, the function returns after it in any case.
PumpStage(cd, r) ==
    IF r.status # "ok" THEN cd
    ELSE [cd EXCEPT !.market_cap = r.usd_market_cap,
                    !.bonding_progress = Progress(r.usd_market_cap)]

fetch_bonding_curve_data(r1, r2, r3) ==
    LET s1 == DexStage(curve_default, r1) IN
    IF s1.done THEN s1.cd
    ELSE LET s2 == BirdeyeStage(s1.cd, r2) IN
         IF s2.done THEN s2.cd ELSE PumpStage(s2.cd, r3)


\* ------------------------------------------------------------------ state
VARIABLES
    mints,            \* the mints the chain mentions (environment, fixed)
    keep_history,     \* whether the run records published / callbacks (fixed)
    keep_steps,       \* whether the run records the listener's steps in full (fixed)
    event_cap,        \* the puts a recorded run is followed for (fixed)
    obj_cap,          \* the Token objects alive at one time (fixed)
    answers,          \* what the endpoints may answer to an enrichment (fixed)
    enrich,           \* one call of fetch_bonding_curve_data taken stage by stage
    call,             \* one call of the classifier or of the resolver on its own
    helius_ws,        \* PumpFunFetcher.helius_ws: the session object, 0 for None
    sessions,         \* the HeliusWebSocket objects, in the order of their creation
    threads,          \* the ws_thread_func threads; thread t was started with object t
    clock,            \* time.time() in minutes
    ticks,            \* clock steps taken (bounds the run)
    heap,             \* ref -> Token object
    known_tokens,     \* HeliusWebSocket.known_tokens: refs in dict insertion order
    update_queue,     \* queue.Queue of [action, ref, snap]; snap is the Token's
                      \* value when it was put (history, not read by the code)
    tokens,           \* PumpFunFetcher.tokens: address -> ref, 0 when absent
    min_market_cap,   \* REMOVAL_THRESHOLD["min_market_cap"]
    ws_running,       \* HeliusWebSocket.running
    running,          \* PumpFunFetcher.running
    lpc,              \* listener: "recv" | "settle"
    rpc,              \* periodic_refresh: "sleep" | "loop" | "pace" | "done"
    all_tokens,       \* the sorted snapshot of the current cycle
    ridx,             \* position of the for loop in all_tokens
    tokens_refreshed, \* the cycle's counter
    cycle_log,        \* history: <<action, address>> put by the cycle in progress
    published,        \* history: <<action, address>> of every put
    callbacks,        \* history: <<action, address>> of every callback call
    drain_log,        \* history: [snap, seen] of the events the last step drained
    last              \* history: the event-producing step just taken, if any

vars == <<mints, keep_history, keep_steps, event_cap, obj_cap, answers, enrich, call,
          helius_ws, sessions, threads, clock, ticks,
          heap, known_tokens, update_queue, tokens, min_market_cap, ws_running,
          running, lpc, rpc, all_tokens, ridx, tokens_refreshed, cycle_log,
          published, callbacks, drain_log, last>>

\* what no step of the pipeline changes
envVars == <<mints, keep_history, keep_steps, event_cap, obj_cap, answers, enrich, call,
            helius_ws, sessions, threads>>
taskVars == <<lpc, rpc, all_tokens, ridx, tokens_refreshed, cycle_log>>
flagVars == <<ws_running, running, min_market_cap>>

Refs == 1..obj_cap

Range(s) == {s[i] : i \in 1..Len(s)}

\* ------------------------------------------------------------------ Token
\* the ratio with the sell counter itself as divisor
buy_sell_ratio_Unguarded(buys, sells) == [num |-> buys, den |-> sells]

\* Token.buy_sell_ratio: self.buys / max(self.sells, 1), as the fraction
\* num / den
buy_sell_ratio(buys, sells) == [num |-> buys, den |-> Max(sells, 1)]

NewToken(addr, meta, cd, holder_count, b, s, now) ==
    [address |-> addr, name |-> meta.name, symbol |-> meta.symbol,
     created_at |-> now, market_cap |-> cd.market_cap, volume_5m |-> cd.volume_5m,
     volume_1h |-> 0, holders |-> IF holder_count > 0 THEN holder_count ELSE 1,
     buys |-> b, sells |-> s, dev_sold |-> FALSE,
     bonding_progress |-> cd.bonding_progress, last_update |-> now]

\* Token.age_minutes > 30
Aged(tok, now) == now - tok.created_at > RETENTION_MINUTES

\* ------------------------------------------------------- registry helpers
\* position of the address in the dict, 0 when it is not a key
RECURSIVE IndexOf(_, _, _, _)
IndexOf(h, known, addr, i) ==
    IF i > Len(known) THEN 0
    ELSE IF h[known[i]].address = addr THEN i
    ELSE IndexOf(h, known, addr, i + 1)

Tracked(addr) == IndexOf(heap, known_tokens, addr, 1) # 0
RefOf(addr) == known_tokens[IndexOf(heap, known_tokens, addr, 1)]

\* del self.known_tokens[address]
\* a del that leaves the dict as it is
DictDel_Kept(known, i) == known

\* del self.known_tokens[token.address]
DictDel(known, i) ==
    [j \in 1..(Len(known) - 1) |-> IF j < i THEN known[j] ELSE known[j + 1]]

\* sorted(values, key = last_update): Python's sort is stable, so a token
\* comes after the tokens with a smaller stamp and after those of the same
\* stamp that precede it in the dict.
SortRank(h, known, i) ==
    Cardinality({j \in 1..Len(known) :
        \/ h[known[j]].last_update < h[known[i]].last_update
        \/ h[known[j]].last_update = h[known[i]].last_update /\ j <= i})

SortByLastUpdate(h, known) ==
    [p \in 1..Len(known) |->
        known[CHOOSE i \in 1..Len(known) : SortRank(h, known, i) = p]]

\* ------------------------------------------------------------ object heap
\* The objects something still refers to; the others are collected.
LiveRefs(known, queue, cache, snapshot) ==
    Range(known) \cup {queue[i].ref : i \in 1..Len(queue)}
    \cup ({cache[a] : a \in DOMAIN cache} \ {0}) \cup Range(snapshot)

Collect(h, known, queue, cache, snapshot) ==
    [r \in (DOMAIN h) \cap LiveRefs(known, queue, cache, snapshot) |-> h[r]]

\* A new object of an address takes the first free ref among address,
\* address + n, address + 2n, ... for the n addresses of the run.
FreeRefs(addr) ==
    {r \in Refs \ LiveRefs(known_tokens, update_queue, tokens, all_tokens) :
        (r - addr) % Cardinality(DOMAIN tokens) = 0}
CanAlloc(addr) == FreeRefs(addr) # {}
NewRef(addr) == CHOOSE r \in FreeRefs(addr) : \A q \in FreeRefs(addr) : r <= q

\* ---------------------------------------------------------- change queue
\* a queue that holds one event at most
QueueFull_OneSlot(queue) == Len(queue) >= 1

\* queue.Queue(): maxsize is 0, and put() waits only while
\* 0 < maxsize <= qsize()
QueueFull(queue) ==
    LET maxsize == 0 IN maxsize > 0 /\ Len(queue) >= maxsize

\* a put goes through if the queue is not full; a run is followed for
\* event_cap puts
CanPut == (~keep_history \/ Len(published) < event_cap) /\ ~QueueFull(update_queue)

\* update_queue.put((action, token))
QueuePut(queue, h, action, ref) ==
    Append(queue, [action |-> action, ref |-> ref, snap |-> h[ref]])

Log(hist, action, addr) ==
    IF keep_history THEN Append(hist, <<action, addr>>) ELSE hist

\* The record of a step that put an event: the handler (op), the notification
\* type or the event put (type), the address and the object it is about,
\* whether the address was a key of the registry before the step, and the
\* length of the queue before the step. In a run that keeps the listener's
\* steps in full, a step of the listener also records the requests it made
\* (calls) and the registry before it (was), and a step of the listener that
\* puts nothing is recorded too.
NoStep == [op |-> "none", type |-> "none", mint |-> NoMint, ref |-> 0,
           tracked |-> FALSE, qlen |-> 0, calls |-> {}, was |-> <<>>]
Step(op, type, mint, ref, tracked) ==
    [op |-> op, type |-> type, mint |-> mint, ref |-> ref,
     tracked |-> tracked, qlen |-> Len(update_queue), calls |-> {}, was |-> <<>>]

\* the Token objects of the registry, in insertion order
Registry == [i \in 1..Len(known_tokens) |-> heap[known_tokens[i]]]

Heard(step, calls) ==
    IF keep_steps THEN [step EXCEPT !.calls = calls, !.was = Registry] ELSE step

\* the requests of a handler that goes as far as the insertion
AllCalls == {"tx", "meta", "curve", "holders"}

\* a listener step that returns before it changes anything: the notification
\* skipped (recv) or handed to handle_token_creation (settle), and the event
\* a handler gives up after the transaction fetch
DropOp(op) ==
    CASE op = "recv" -> "skipped"
      [] op = "raise" -> "raised"
      [] op = "settle" -> "settling"
      [] op = "create" -> "create_dropped"
      [] op = "trade" -> "trade_dropped"


\* the life of the sessions is not followed
NoSessions == helius_ws = 0 /\ sessions = <<>> /\ threads = <<>>

\* ------------------------------------------------- what the network answers
Resp(kind, tx) == [kind |-> kind, tx |-> tx]

\* transaction details that mention mint m: in a mint initialization only,
\* and in the post-transaction token balances only
TxOf(m) ==
    {[inner |-> <<[type |-> "initializeMint", mint |-> m]>>, post |-> <<SOL>>],
     [inner |-> <<[type |-> "transfer", mint |-> NoMint]>>, post |-> <<SOL, m>>]}

\* transaction details that mention no mint but the native one
TxBare == [inner |-> <<[type |-> "transfer", mint |-> NoMint]>>, post |-> <<SOL>>]

\* the transactions a creation notification may be about. One without a mint
\* gives the step of one that is not found, but for the requests recorded: it
\* is followed in the runs that record them.
CreateTxOf(m) == IF keep_steps THEN TxOf(m) \cup {TxBare} ELSE TxOf(m)

\* the answers to the (at most three) getTransaction attempts: found at the
\* third attempt, and an explicit error at the first
AttemptsOf(tx) ==
    {<<Resp("null", NoTx), Resp("exc", NoTx), Resp("result", tx)>>,
     <<Resp("error", NoTx), Resp("result", tx), Resp("result", tx)>>}

\* logsNotification frames: the error member and the log lines
Frames ==
    {[err |-> TRUE, logs |-> <<{"Create"}>>, raises |-> FALSE],
     [err |-> FALSE, logs |-> <<{"Create"}>>, raises |-> FALSE],
     [err |-> FALSE, logs |-> <<{"Buy"}>>, raises |-> FALSE],
     [err |-> FALSE, logs |-> <<{"Buy"}, {}, {"Sell"}>>, raises |-> FALSE],
     [err |-> FALSE, logs |-> <<{}>>, raises |-> FALSE]}
    \cup (IF keep_steps
          THEN {[err |-> FALSE, logs |-> <<{"Buy"}>>, raises |-> TRUE]}
          ELSE {})

Pair(fdv, mcap, m5, h1, ok) ==
    [fdv |-> fdv, marketCap |-> mcap, m5 |-> m5, h1 |-> h1, buys |-> 2,
     sells |-> 1, volume_ok |-> ok]
Dex(status, pairs) == [status |-> status, pairs |-> pairs]
Birdeye(status, has_data, mc, v24h, holder) ==
    [status |-> status, has_data |-> has_data, mc |-> mc, v24h |-> v24h,
     holder |-> holder]
Pump(status, mc) == [status |-> status, usd_market_cap |-> mc]
Meta(kind) == [kind |-> kind, name |-> "Coin", symbol |-> "COIN"]
Holders(kind, n) == [kind |-> kind, count |-> n]

\* What the five endpoints answer to one enrichment: every source down; the
\* aggregator with a valuation under the default floor; the analytics
\* provider alone; the platform endpoint alone, at the default floor. raises
\* tells whether the code that uses the answers raises an exception of its
\* own before it has changed anything.
SourcesDown ==
    [meta |-> Meta("exc"), dex |-> Dex("exc", <<>>),
     bird |-> Birdeye("non200", FALSE, 0, 0, 0), pump |-> Pump("exc", 0),
     holder |-> Holders("exc", 0), raises |-> FALSE]

\* the handler, or the try block of the iteration of the refresh loop, that
\* uses the answers raises
SourcesRaise == [SourcesDown EXCEPT !.raises = TRUE]

PipelineEnv ==
    {SourcesDown,
     [meta |-> Meta("result"), dex |-> Dex("ok", <<Pair(500, 0, 300, 0, TRUE)>>),
      bird |-> Birdeye("ok", TRUE, 9000, 0, 7), pump |-> Pump("ok", 9000),
      holder |-> Holders("result", 3), raises |-> FALSE],
     [meta |-> Meta("result"), dex |-> Dex("non200", <<>>),
      bird |-> Birdeye("ok", TRUE, 2000, 28800, 50), pump |-> Pump("exc", 0),
      holder |-> Holders("result", 0), raises |-> FALSE],
     [meta |-> Meta("exc"), dex |-> Dex("ok", <<>>),
      bird |-> Birdeye("ok", FALSE, 0, 0, 0),
      pump |-> Pump("ok", DEFAULT_MIN_MARKET_CAP), holder |-> Holders("exc", 0),
      raises |-> FALSE]}

\* the answers a first enrichment of a mint is followed for: every source
\* down, and the analytics provider alone
InsertEnv == {env \in answers : env.dex.status # "ok"}

Enrich(env) == fetch_bonding_curve_data(env.dex, env.bird, env.pump)

\* ------------------------------------------- one enrichment, stage by stage
\* enrich.pc is the source about to be asked ("dex", "birdeye", "pump") or
\* "done"; r1, r2, r3 are what the three sources answer to this call; cd is
\* the curve_data dict; queried lists the sources asked so far.
NoCall == [pc |-> "idle"]

DexAnswers ==
    {Dex("exc", <<>>), Dex("non200", <<>>), Dex("ok", <<>>)} \cup
    {Dex("ok", <<Pair(fdv, mcap, m5, h1, ok)>>) :
        fdv \in {0, 500}, mcap \in {0, 80000}, m5 \in {0, 300},
        h1 \in {0, 1200}, ok \in BOOLEAN}

BirdeyeAnswers ==
    {Birdeye("exc", FALSE, 0, 0, 0), Birdeye("non200", FALSE, 0, 0, 0),
     Birdeye("ok", FALSE, 0, 0, 0)} \cup
    {Birdeye("ok", TRUE, mc, v, n) :
        mc \in {0 - 100, 0, 5000}, v \in {0, 28800}, n \in {0, 50}}

PumpAnswers ==
    {Pump("exc", 0), Pump("non200", 0)} \cup
    {Pump("ok", mc) : mc \in {0 - 100, 0, 3000, 70000}}

pipelineVars ==
    <<mints, keep_history, keep_steps, event_cap, obj_cap, answers, call,
      helius_ws, sessions, threads, clock, ticks, heap,
      known_tokens, update_queue, tokens, min_market_cap, ws_running, running,
      lpc, rpc, all_tokens, ridx, tokens_refreshed, cycle_log, published,
      callbacks, drain_log, last>>

EnrichDex ==
    /\ enrich.pc = "dex"
    /\ LET s == DexStage(enrich.cd, enrich.r1) IN
         enrich' = [enrich EXCEPT !.cd = s.cd, !.queried = Append(@, "dex"),
                                  !.pc = IF s.done THEN "done" ELSE "birdeye"]
    /\ UNCHANGED pipelineVars

EnrichBirdeye ==
    /\ enrich.pc = "birdeye"
    /\ LET s == BirdeyeStage(enrich.cd, enrich.r2) IN
         enrich' = [enrich EXCEPT !.cd = s.cd, !.queried = Append(@, "birdeye"),
                                  !.pc = IF s.done THEN "done" ELSE "pump"]
    /\ UNCHANGED pipelineVars

EnrichPump ==
    /\ enrich.pc = "pump"
    /\ enrich' = [enrich EXCEPT !.cd = PumpStage(enrich.cd, enrich.r3),
                                !.queried = Append(@, "pump"), !.pc = "done"]
    /\ UNCHANGED pipelineVars

EnrichNext == EnrichDex \/ EnrichBirdeye \/ EnrichPump

\* ------------------------ one call of the classifier or of the resolver
\* Both are synchronous: the call is one step. call.pc is "classify" with the
\* notification in call.frame, or "resolve" with the answers to the
\* getTransaction attempts in call.resps.
LogBundles(n) == UNION {[1..k -> SUBSET Markers] : k \in 0..n}

\* the inner instructions of a transaction, each a mint initialization or a
\* transfer, with or without a mint, and its post-transaction token
\* balances, each of no mint, of the native mint or of one of two tokens
InnerLists(n) ==
    UNION {[1..k -> [type : {"initializeMint", "initializeMint2", "transfer"},
                     mint : {NoMint} \cup 1..(NumAddr + 1)]] : k \in 0..n}

BalanceLists(n) == UNION {[1..k -> {NoMint, SOL} \cup 1..(NumAddr + 1)] : k \in 0..n}

ResolverAnswers ==
    {Resp("exc", NoTx), Resp("error", NoTx), Resp("null", NoTx)} \cup
    {Resp("result", tx) : tx \in TxOf(1)}

otherVars ==
    <<mints, keep_history, keep_steps, event_cap, obj_cap, answers, enrich,
      helius_ws, sessions, threads, clock, ticks, heap,
      known_tokens, update_queue, tokens, min_market_cap, ws_running, running,
      lpc, rpc, all_tokens, ridx, tokens_refreshed, cycle_log, published,
      callbacks, drain_log, last>>

ClassifyCall ==
    /\ call.pc = "classify"
    /\ call' = [call EXCEPT !.pc = "classified", !.type = Classification(call.frame)]
    /\ UNCHANGED otherVars

ResolveCall ==
    /\ call.pc = "resolve"
    /\ call' = [call EXCEPT !.pc = "resolved",
                            !.res = fetch_transaction_details(call.resps)]
    /\ UNCHANGED otherVars

\* one call of fetch_bonding_curve_data
EnrichCall ==
    /\ call.pc = "enrich"
    /\ call' = [call EXCEPT !.pc = "enriched",
                            !.cd = fetch_bonding_curve_data(call.r1, call.r2, call.r3)]
    /\ UNCHANGED otherVars

\* one call of fetch_holder_count
CountCall ==
    /\ call.pc = "count"
    /\ call' = [call EXCEPT !.pc = "counted", !.count = fetch_holder_count(call.resp)]
    /\ UNCHANGED otherVars

\* one reading of Token.buy_sell_ratio
RatioCall ==
    /\ call.pc = "ratio"
    /\ call' = [call EXCEPT !.pc = "divided",
                            !.ratio = buy_sell_ratio(call.buys, call.sells)]
    /\ UNCHANGED otherVars

\* one call of extract_mint_from_create_tx, and the mint handle_trade_event
\* finds in the same transaction
ExtractCall ==
    /\ call.pc = "extract"
    /\ call' = [call EXCEPT !.pc = "extracted",
                            !.created = extract_mint_from_create_tx(call.tx),
                            !.traded = FirstNonNativeMint(call.tx.post)]
    /\ UNCHANGED otherVars

CallNext ==
    \/ ClassifyCall \/ ResolveCall \/ EnrichCall \/ CountCall \/ RatioCall
    \/ ExtractCall

\* ----------------------------------------------------------------- listener
\* while self.running and self.ws: the test listen() makes after each frame
ListenNext == IF ws_running THEN "recv" ELSE "done"

\* One atomic step of the event loop ends here: the new heap is collected.
Commit(h, known, queue, cache, snapshot) ==
    /\ known_tokens' = known
    /\ update_queue' = queue
    /\ tokens' = cache
    /\ all_tokens' = snapshot
    /\ heap' = Collect(h, known, queue, cache, snapshot)

\* known_tokens[mint] = token; update_queue.put(("new", token))
InsertNew(tok, op, type) ==
    /\ CanAlloc(tok.address) /\ CanPut
    /\ LET r == NewRef(tok.address)
           h == [x \in (DOMAIN heap) \cup {r} |-> IF x = r THEN tok ELSE heap[x]]
       IN  /\ Commit(h, Append(known_tokens, r),
                     QueuePut(update_queue, h, "new", r), tokens, all_tokens)
           /\ published' = Log(published, "new", tok.address)
           /\ last' = Heard(Step(op, type, tok.address, r, FALSE), AllCalls)

\* nothing is inserted, changed or put
Dropped(op, type, mint, tracked) ==
    /\ UNCHANGED <<heap, known_tokens, update_queue, tokens, all_tokens, published>>
    /\ last' = IF keep_steps
               THEN Heard(Step(DropOp(op), type, mint, 0, tracked),
                          IF op \in {"create", "trade"} THEN {"tx"} ELSE {})
               ELSE NoStep

\* the trade counted on both counters
TradeCounted_Both(tok, type, now) ==
    [tok EXCEPT !.buys = @ + 1, !.sells = @ + 1, !.last_update = now]

\* the trade stamped but not counted
TradeCounted_Lost(tok, type, now) == [tok EXCEPT !.last_update = now]

\* handle_trade_event, from the transaction fetch to the break
TradeCounted(tok, type, now) ==
    [tok EXCEPT !.buys = IF type = "buy" THEN @ + 1 ELSE @,
                !.sells = IF type = "buy" THEN @ ELSE @ + 1,
                !.last_update = now]

\* the implicit creation without the triggering trade counted
ImplicitToken_NotCounted(mint, type, env, now) ==
    NewToken(mint, fetch_token_metadata(env.meta), Enrich(env),
             fetch_holder_count(env.holder), 0, 0, now)

ImplicitToken(mint, type, env, now) ==
    NewToken(mint, fetch_token_metadata(env.meta), Enrich(env),
             fetch_holder_count(env.holder),
             IF type = "buy" THEN 1 ELSE 0, IF type = "sell" THEN 1 ELSE 0, now)

\* the handler without the test of the mint of a balance
handle_trade_event_MintUntested(type) ==
    \E m \in mints : \E tx \in TxOf(m) : \E resps \in AttemptsOf(tx) :
      LET res == fetch_transaction_details(resps)
          mint == FirstNonNativeMint(res.tx.post)
      IN  IF ~res.found THEN Dropped("trade", type, NoMint, FALSE)
          ELSE IF Tracked(mint)
          THEN /\ CanPut
               /\ LET r == RefOf(mint)
                      h == [heap EXCEPT ![r] = TradeCounted(@, type, clock)]
                  IN  /\ Commit(h, known_tokens,
                                QueuePut(update_queue, h, "update", r),
                                tokens, all_tokens)
                      /\ published' = Log(published, "update", mint)
                      /\ last' = Heard(Step("trade", type, mint, r, TRUE), {"tx"})
          ELSE \E env \in InsertEnv :
                 InsertNew(ImplicitToken(mint, type, env, clock), "trade", type)

handle_trade_event(type) ==
    \E m \in mints : \E tx \in TxOf(m) : \E resps \in AttemptsOf(tx) :
      LET res == fetch_transaction_details(resps)
          mint == FirstNonNativeMint(res.tx.post)
      IN  IF ~res.found \/ mint = NoMint THEN Dropped("trade", type, NoMint, FALSE)
          ELSE IF Tracked(mint)
          THEN /\ CanPut
               /\ LET r == RefOf(mint)
                      h == [heap EXCEPT ![r] = TradeCounted(@, type, clock)]
                  IN  /\ Commit(h, known_tokens,
                                QueuePut(update_queue, h, "update", r),
                                tokens, all_tokens)
                      /\ published' = Log(published, "update", mint)
                      /\ last' = Heard(Step("trade", type, mint, r, TRUE), {"tx"})
          ELSE \E env \in InsertEnv :
                 IF env.raises THEN Dropped("raise", type, mint, FALSE)
                 ELSE InsertNew(ImplicitToken(mint, type, env, clock), "trade", type)

\* the created token with the creation counted as a buy
CreatedToken_Bought(mint, env, now) ==
    NewToken(mint, fetch_token_metadata(env.meta), Enrich(env),
             fetch_holder_count(env.holder), 1, 0, now)

\* handle_token_creation after the settle delay
CreatedToken(mint, env, now) ==
    NewToken(mint, fetch_token_metadata(env.meta), Enrich(env),
             fetch_holder_count(env.holder), 0, 0, now)

\* the handler without the test of the registry
handle_token_creation_Unchecked ==
    \E m \in mints : \E tx \in CreateTxOf(m) : \E resps \in AttemptsOf(tx) :
      LET res == fetch_transaction_details(resps)
          mint == extract_mint_from_create_tx(res.tx)
      IN  IF ~res.found \/ mint = NoMint THEN Dropped("create", "create", NoMint, FALSE)
          ELSE \E env \in InsertEnv :
                 InsertNew(CreatedToken(mint, env, clock), "create", "create")

handle_token_creation ==
    \E m \in mints : \E tx \in CreateTxOf(m) : \E resps \in AttemptsOf(tx) :
      LET res == fetch_transaction_details(resps)
          mint == extract_mint_from_create_tx(res.tx)
      IN  IF ~res.found \/ mint = NoMint THEN Dropped("create", "create", NoMint, FALSE)
          ELSE IF Tracked(mint) THEN Dropped("create", "create", mint, TRUE)
          ELSE \E env \in InsertEnv :
                 IF env.raises THEN Dropped("raise", "create", mint, FALSE)
                 ELSE InsertNew(CreatedToken(mint, env, clock), "create", "create")

\* the exception of a notification ending listen()
Absorbed_EndsListen ==
    /\ Dropped("raise", "none", NoMint, FALSE)
    /\ lpc' = "done"

\* except Exception as e: print(f"Error processing notification: {e}"):
\* process_log_notification returns and listen() tests its while
Absorbed ==
    /\ Dropped("raise", "none", NoMint, FALSE)
    /\ lpc' = ListenNext

\* listen(): one frame received; process_log_notification up to its first
\* await, or up to its except clause if reading the notification raises
ListenRecv ==
    /\ lpc = "recv" /\ rpc # "loop"
    /\ \E frame \in Frames :
         LET type == Classification(frame)
             kind == IF frame.err THEN "err" ELSE type
         IN  IF frame.raises THEN Absorbed
             ELSE IF type = "create"
             THEN /\ lpc' = "settle"
                  /\ Dropped("settle", kind, NoMint, FALSE)
             ELSE IF type \in {"buy", "sell"}
             THEN /\ handle_trade_event(type)
                  /\ lpc' = ListenNext
             ELSE /\ Dropped("recv", kind, NoMint, FALSE)
                  /\ lpc' = ListenNext
    /\ UNCHANGED <<envVars, flagVars, clock, ticks, rpc, ridx, tokens_refreshed,
                   cycle_log, callbacks>>
    /\ drain_log' = <<>>

\* the settle delay is over: the rest of handle_token_creation
ListenSettled ==
    /\ lpc = "settle" /\ rpc # "loop"
    /\ handle_token_creation
    /\ lpc' = ListenNext
    /\ UNCHANGED <<envVars, flagVars, clock, ticks, rpc, ridx, tokens_refreshed,
                   cycle_log, callbacks>>
    /\ drain_log' = <<>>


\* ---------------------------------------------------------- refresh scheduler
\* the refresh storing the number of accounts the enumeration listed, as it
\* is
refresh_token_data_RawCount(tok, env, now) ==
    LET cd == Enrich(env) IN
    [tok EXCEPT !.market_cap = cd.market_cap,
                !.bonding_progress = cd.bonding_progress,
                !.volume_5m = cd.volume_5m,
                !.holders = env.holder.count,
                !.last_update = now]

\* the refresh stamping the token a second back
refresh_token_data_Backdated(tok, env, now) ==
    LET cd == Enrich(env)
        holder_count == fetch_holder_count(env.holder)
    IN  [tok EXCEPT !.market_cap = cd.market_cap,
                    !.bonding_progress = cd.bonding_progress,
                    !.volume_5m = cd.volume_5m,
                    !.holders = IF holder_count > 0 THEN holder_count ELSE @,
                    !.last_update = tok.last_update - 1]

\* the refresh clearing the trade counters
refresh_token_data_Recounted(tok, env, now) ==
    LET cd == Enrich(env)
        holder_count == fetch_holder_count(env.holder)
    IN  [tok EXCEPT !.market_cap = cd.market_cap,
                    !.bonding_progress = cd.bonding_progress,
                    !.volume_5m = cd.volume_5m,
                    !.holders = IF holder_count > 0 THEN holder_count ELSE @,
                    !.buys = 0, !.sells = 0,
                    !.last_update = now]

refresh_token_data(tok, env, now) ==
    LET cd == Enrich(env)
        holder_count == fetch_holder_count(env.holder)
    IN  [tok EXCEPT !.market_cap = cd.market_cap,
                    !.bonding_progress = cd.bonding_progress,
                    !.volume_5m = cd.volume_5m,
                    !.holders = IF holder_count > 0 THEN holder_count ELSE @,
                    !.last_update = now]

\* the floor test with the floor itself counted as below it
BelowFloor_Inclusive(tok, min_mcap) == tok.market_cap > 0 /\ tok.market_cap <= min_mcap

\* updated_token.market_cap > 0 and updated_token.market_cap < min_mcap
BelowFloor(tok, min_mcap) == tok.market_cap > 0 /\ tok.market_cap < min_mcap

\* the for loop of a cycle goes on to this token
LoopGoesOn ==
    /\ ridx <= Len(all_tokens)
    /\ ws_running
    /\ tokens_refreshed < TOKENS_PER_REFRESH

\* the eviction of a token that is refreshed first
Evict_Refreshed(h, r, op) ==
    LET h2 == [h EXCEPT ![r] = refresh_token_data(@, SourcesDown, clock)] IN
    /\ CanPut
    /\ Commit(h2, DictDel(known_tokens, IndexOf(h, known_tokens, h[r].address, 1)),
              QueuePut(update_queue, h2, "remove", r), tokens, all_tokens)
    /\ published' = Log(published, "remove", h[r].address)
    /\ cycle_log' = Append(cycle_log, <<"remove", h[r].address>>)
    /\ last' = Step(op, "remove", h[r].address, r, TRUE)

\* if token.address in self.known_tokens: del ...; update_queue.put(("remove", token))
Evict(h, r, op) ==
    LET i == IndexOf(h, known_tokens, h[r].address, 1) IN
    IF i # 0
    THEN /\ CanPut
         /\ Commit(h, DictDel(known_tokens, i),
                   QueuePut(update_queue, h, "remove", r), tokens, all_tokens)
         /\ published' = Log(published, "remove", h[r].address)
         /\ cycle_log' = Append(cycle_log, <<"remove", h[r].address>>)
         /\ last' = Step(op, "remove", h[r].address, r, TRUE)
    ELSE /\ Commit(h, known_tokens, update_queue, tokens, all_tokens)
         /\ published' = published
         /\ cycle_log' = cycle_log
         /\ last' = Step(op, "remove", h[r].address, r, FALSE)

\* the refresh of a token stopping the task
RefreshFailed_Aborts(r) ==
    /\ rpc' = "done"
    /\ Commit(heap, known_tokens, update_queue, tokens, all_tokens)
    /\ UNCHANGED <<tokens_refreshed, published, cycle_log>>
    /\ last' = Step("refresh_failed", "none", heap[r].address, r, TRUE)

\* except Exception as e: print(...): the for loop goes on with the next
\* token, without the await of the pacing delay
RefreshFailed(r) ==
    /\ rpc' = "loop"
    /\ Commit(heap, known_tokens, update_queue, tokens, all_tokens)
    /\ UNCHANGED <<tokens_refreshed, published, cycle_log>>
    /\ last' = Step("refresh_failed", "none", heap[r].address, r, TRUE)

\* await asyncio.sleep(REFRESH_INTERVAL) returns: the snapshot is taken
RefreshWake ==
    /\ rpc = "sleep" /\ lpc # "busy"
    /\ IF known_tokens = <<>>
       THEN /\ rpc' = IF ws_running THEN "sleep" ELSE "done"
            /\ UNCHANGED <<all_tokens, ridx, tokens_refreshed>>
       ELSE /\ rpc' = "loop"
            /\ all_tokens' = SortByLastUpdate(heap, known_tokens)
            /\ ridx' = 1
            /\ tokens_refreshed' = 0
    /\ cycle_log' = <<>>
    /\ last' = NoStep
    /\ UNCHANGED <<envVars, flagVars, clock, ticks, heap, known_tokens, update_queue,
                   tokens, lpc, published, callbacks>>
    /\ drain_log' = <<>>

\* one iteration of the for loop, or its end
RefreshIter ==
    /\ rpc = "loop"
    /\ IF ~LoopGoesOn
       THEN /\ rpc' = IF ws_running THEN "sleep" ELSE "done"
            /\ Commit(heap, known_tokens, update_queue, tokens, <<>>)
            /\ cycle_log' = <<>>
            /\ last' = NoStep
            /\ UNCHANGED <<ridx, tokens_refreshed, published>>
       ELSE LET r == all_tokens[ridx] IN
            /\ ridx' = ridx + 1
            /\ IF Aged(heap[r], clock)
               THEN /\ Evict(heap, r, "age_evict")
                    /\ rpc' = "loop"
                    /\ UNCHANGED tokens_refreshed
               ELSE \E env \in answers :
                      IF env.raises THEN RefreshFailed(r) ELSE
                      LET h == [heap EXCEPT ![r] = refresh_token_data(@, env, clock)]
                      IN  /\ rpc' = "pace"
                          /\ IF BelowFloor(h[r], min_market_cap)
                             THEN /\ Evict(h, r, "refresh")
                                  /\ UNCHANGED tokens_refreshed
                             ELSE /\ CanPut
                                  /\ Commit(h, known_tokens,
                                            QueuePut(update_queue, h, "update", r),
                                            tokens, all_tokens)
                                  /\ published' = Log(published, "update", h[r].address)
                                  /\ cycle_log' = Append(cycle_log, <<"update", h[r].address>>)
                                  /\ last' = Step("refresh", "update", h[r].address, r,
                                                  TRUE)
                                  /\ tokens_refreshed' = tokens_refreshed + 1
    /\ UNCHANGED <<envVars, flagVars, clock, ticks, lpc, callbacks>>
    /\ drain_log' = <<>>

\* await asyncio.sleep(0.5) returns
RefreshPaced ==
    /\ rpc = "pace"
    /\ rpc' = "loop"
    /\ last' = NoStep
    /\ UNCHANGED <<envVars, flagVars, clock, ticks, heap, known_tokens, update_queue,
                   tokens, lpc, all_tokens, ridx, tokens_refreshed, cycle_log,
                   published, callbacks>>
    /\ drain_log' = <<>>

\* ------------------------------------------------------------ queue processor
\* the inner while loop of _process_queue_async over the queued events
RECURSIVE Drain(_, _, _, _, _, _)
Drain(queue, h, now, cache, cbs, seen) ==
    IF queue = <<>> THEN [cache |-> cache, cbs |-> cbs, seen |-> seen]
    ELSE LET e    == Head(queue)
             tok  == h[e.ref]
             c1   == [cache EXCEPT ![tok.address] = e.ref]
             cb1  == Append(cbs, <<e.action, tok.address>>)
             s1   == Append(seen, [action |-> e.action, snap |-> e.snap, seen |-> tok])
         IN  IF Aged(tok, now)
             THEN Drain(Tail(queue), h, now, [c1 EXCEPT ![tok.address] = 0],
                        Append(cb1, <<"remove", tok.address>>), s1)
             ELSE Drain(Tail(queue), h, now, c1, cb1, s1)

ProcessQueue ==
    /\ running /\ rpc # "loop"
    /\ update_queue # <<>>
    /\ LET d == Drain(update_queue, heap, clock, tokens, <<>>, <<>>) IN
         /\ Commit(heap, known_tokens, <<>>, d.cache, all_tokens)
         /\ callbacks' = IF keep_history THEN callbacks \o d.cbs ELSE callbacks
         /\ drain_log' = d.seen
    /\ last' = NoStep
    /\ UNCHANGED <<envVars, flagVars, clock, ticks, lpc, rpc, ridx, tokens_refreshed,
                   cycle_log, published>>

\* ------------------------------------------------------------- environment
\* the mints that keep being traded
HotMints == {1}

Tick ==
    /\ ticks < MaxTicks
    /\ ticks' = ticks + 1
    /\ clock' = clock + TickStep
    /\ last' = NoStep
    /\ UNCHANGED <<envVars, flagVars, taskVars, heap, known_tokens, update_queue,
                   tokens, published, callbacks>>
    /\ drain_log' = <<>>

\* PumpFunFetcher.stop_monitoring, called from the GUI thread
stop_monitoring ==
    /\ running
    /\ running' = FALSE
    /\ ws_running' = FALSE
    /\ last' = NoStep
    /\ UNCHANGED <<envVars, min_market_cap, clock, ticks, taskVars, heap, known_tokens,
                   update_queue, tokens, published, callbacks>>
    /\ drain_log' = <<>>

\* Time in a run without end. The code reads a time stamp in two ways only:
\* created_at through age_minutes > 30 and last_update through the order of
\* the stamps (the sort key of a cycle). TickShift lets ShiftStep minutes pass
\* and keeps the state relative to the present: clock stays, every created_at
\* moves back by ShiftStep until the token is past the retention window, and
\* the last_update stamps move back keeping their order, gaps closed. The
\* trade counters, which no branch of the code reads, are kept up to CountCap.
AgedOut == 0 - (RETENTION_MINUTES + ShiftStep)

Stamps(h) == {h[r].last_update : r \in DOMAIN h}

Shifted(h, tok) ==
    [tok EXCEPT !.created_at = Max(@ - ShiftStep, clock + AgedOut),
                !.last_update =
                    clock - ShiftStep * Cardinality({w \in Stamps(h) : w >= @}),
                !.buys = Min(@, CountCap),
                !.sells = Min(@, CountCap)]

\* a token other than the hot one was created at the present clock reading
CreatedNow(h, known) ==
    \E i \in 1..Len(known) :
        h[known[i]].created_at = clock /\ h[known[i]].address \notin HotMints

\* every tracked token other than the hot one bears the present clock reading
RefreshedNow(h, known) ==
    \A i \in 1..Len(known) :
        h[known[i]].last_update = clock \/ h[known[i]].address \in HotMints

\* The clock reading changes while the three tasks are at their awaits with
\* the queue drained, once a new mint has appeared and a cycle has gone over
\* the registry since the last change.
TickShift ==
    /\ rpc = "sleep" /\ lpc = "recv" /\ update_queue = <<>>
    /\ CreatedNow(heap, known_tokens)
    /\ RefreshedNow(heap, known_tokens)
    /\ heap' = [r \in DOMAIN heap |-> Shifted(heap, heap[r])]
    /\ last' = NoStep
    /\ UNCHANGED <<envVars, flagVars, taskVars, clock, ticks, known_tokens,
                   update_queue, tokens, published, callbacks>>
    /\ drain_log' = <<>>

\* The chain of the unbounded run: the trades are buys of a hot mint, which
\* opens the registry, at most one per clock reading; the creations mention
\* the other mints, the smallest untracked one, at most one per clock reading.
TradeOfHotMint ==
    last'.op = "trade" =>
        /\ last'.mint \in HotMints /\ last'.type = "buy"
        /\ IF last'.tracked THEN heap[last'.ref].last_update < clock
                            ELSE known_tokens = <<>>

CreationDue ==
    /\ known_tokens # <<>>
    /\ ~CreatedNow(heap, known_tokens)
    /\ \E b \in mints \ HotMints : ~Tracked(b)

CreationInTurn ==
    /\ CreationDue
    /\ last'.op = "create"
    /\ last'.mint \notin HotMints
    /\ \A b \in mints \ HotMints : b < last'.mint => Tracked(b)

\* The schedule of the unbounded run: the queue processor drains the queue
\* before another task goes on from its await, and the chain is heard
\* between two cycles.
Drained == update_queue = <<>>
AtRest == rpc = "sleep"

HotRecv ==
    /\ AtRest /\ Drained /\ ListenRecv /\ TradeOfHotMint
    /\ lpc' = "settle" => CreationDue

InTurnSettled == AtRest /\ Drained /\ ListenSettled /\ CreationInTurn

DrainedWake == Drained /\ RefreshWake

DrainedPaced == Drained /\ RefreshPaced

\* ------------------------------------------------------------ specification
\* reg: the Token objects of the registry, in insertion order, each one
\* already handed to the consumer (none after construction); listener: where
\* listen() is ("recv" once the tasks are started)
Start(ms, hist, cap, objs, ans, reg, listener) ==
    /\ mints = ms
    /\ keep_history = hist
    /\ event_cap = cap
    /\ obj_cap = objs
    /\ answers = ans
    /\ clock = 0 /\ ticks = 0
    /\ heap = [r \in 1..Len(reg) |-> reg[r]]
    /\ known_tokens = [r \in 1..Len(reg) |-> r]
    /\ update_queue = <<>>
    /\ tokens = [a \in ms \cup {reg[r].address : r \in 1..Len(reg)} |->
                   IndexOf(reg, [r \in 1..Len(reg) |-> r], a, 1)]
    /\ min_market_cap = DEFAULT_MIN_MARKET_CAP
    /\ ws_running = TRUE /\ running = TRUE
    /\ lpc = listener /\ rpc = "sleep"
    /\ all_tokens = <<>> /\ ridx = 1 /\ tokens_refreshed = 0
    /\ cycle_log = <<>>
    /\ published = <<>> /\ callbacks = <<>> /\ drain_log = <<>>
    /\ last = NoStep

\* The session is connected and subscribed, its three tasks are started.
Init == Start(1..NumAddr, TRUE, MaxEvents, MaxObjs, PipelineEnv, <<>>, "recv") /\ enrich = NoCall /\ call = NoCall /\ keep_steps = FALSE /\ NoSessions

Next ==
    \/ ListenRecv
    \/ ListenSettled
    \/ RefreshWake
    \/ RefreshIter
    \/ RefreshPaced
    \/ ProcessQueue
    \/ Tick

Spec == Init /\ [][Next]_vars

\* The same pipeline followed for more events.
InitDeep == Start(1..NumAddr, TRUE, DeepEvents, MaxObjs, PipelineEnv, <<>>, "recv") /\ enrich = NoCall /\ call = NoCall /\ keep_steps = FALSE /\ NoSessions

SpecDeep == InitDeep /\ [][Next]_vars

\* The same pipeline with the listener's steps recorded in full, and the
\* queue processor, which polls every second, draining the queue before
\* another task goes on from its await.
InitListen ==
    /\ Start(1..NumAddr, TRUE, MaxEvents, MaxObjs, PipelineEnv, <<>>, "recv")
    /\ enrich = NoCall /\ call = NoCall /\ keep_steps = TRUE /\ NoSessions

DrainedRecv == Drained /\ ListenRecv
DrainedSettled == Drained /\ ListenSettled
DrainedTick == Drained /\ Tick

ListenerNext ==
    \/ DrainedRecv
    \/ DrainedSettled
    \/ DrainedWake
    \/ RefreshIter
    \/ DrainedPaced
    \/ ProcessQueue
    \/ DrainedTick

SpecListen == InitListen /\ [][ListenerNext]_vars

\* The same tasks with notifications whose processing raises: the sources
\* are down, and a handler that has resolved its mint either goes through or
\* raises before it has inserted anything.
InitAbsorb ==
    /\ Start(1..NumAddr, TRUE, MaxEvents, MaxObjs, {SourcesDown, SourcesRaise},
             <<>>, "recv")
    /\ enrich = NoCall /\ call = NoCall /\ keep_steps = TRUE /\ NoSessions

SpecAbsorb == InitAbsorb /\ [][ListenerNext]_vars

\* The same tasks followed for one event more, the sources down: a token can
\* be inserted, refreshed and traded, in any order the tasks allow.
InitCount ==
    /\ Start(1..NumAddr, TRUE, MaxEvents + 1, MaxObjs, {SourcesDown}, <<>>, "recv")
    /\ enrich = NoCall /\ call = NoCall /\ keep_steps = FALSE /\ NoSessions

SpecCount == InitCount /\ [][ListenerNext]_vars

\* One call of fetch_bonding_curve_data, for every answer of the three sources.
EnrichStart ==
    /\ Start({}, FALSE, 0, 0, {}, <<>>, "done")
    /\ \E r1 \in DexAnswers, r2 \in BirdeyeAnswers, r3 \in PumpAnswers :
         enrich = [pc |-> "dex", r1 |-> r1, r2 |-> r2, r3 |-> r3,
                   cd |-> curve_default, queried |-> <<>>]
    /\ call = NoCall /\ keep_steps = FALSE /\ NoSessions

SpecEnrich == EnrichStart /\ [][EnrichNext]_vars

\* One call of the classifier, for every notification of at most MaxLines log
\* lines, or one call of the resolver, for every answer to its attempts, or
\* one call of fetch_bonding_curve_data, for every answer of the three
\* sources, or one call of fetch_holder_count, for every answer of the
\* enumeration, or one reading of the buy/sell ratio of a token, for every
\* pair of counters up to MaxTrades, or one extraction of the mint from a
\* transaction of up to MaxIx inner instructions and MaxBalances balances.
CallStart ==
    /\ Start({}, FALSE, 0, 0, {}, <<>>, "done")
    /\ enrich = NoCall /\ keep_steps = FALSE /\ NoSessions
    /\ \/ \E err \in BOOLEAN, logs \in LogBundles(MaxLines) :
            call = [pc |-> "classify", frame |-> [err |-> err, logs |-> logs],
                    type |-> "none"]
       \/ \E resps \in [1..3 -> ResolverAnswers] :
            call = [pc |-> "resolve", resps |-> resps,
                    res |-> [found |-> FALSE, tx |-> NoTx, attempts |-> 0,
                            trace |-> <<>>]]
       \/ \E r1 \in DexAnswers, r2 \in BirdeyeAnswers, r3 \in PumpAnswers :
            call = [pc |-> "enrich", r1 |-> r1, r2 |-> r2, r3 |-> r3,
                    cd |-> curve_default]
       \/ \E kind \in {"exc", "none", "result"}, n \in 0..MaxHolders :
            call = [pc |-> "count", resp |-> Holders(kind, n), count |-> 0]
       \/ \E buys \in 0..MaxTrades, sells \in 0..MaxTrades :
            call = [pc |-> "ratio", buys |-> buys, sells |-> sells,
                    ratio |-> [num |-> 0, den |-> 1]]
       \/ \E inner \in InnerLists(MaxIx), post \in BalanceLists(MaxBalances) :
            call = [pc |-> "extract", tx |-> [inner |-> inner, post |-> post],
                    created |-> NoMint, traded |-> NoMint]

SpecCall == CallStart /\ [][CallNext]_vars

\* ------------------------------------------------------ life of a session
\* A HeliusWebSocket object: ws is "none" (None), "open", or "closed" (None
\* again, after close()). acked and closed_by are history: whether the
\* subscription of the object was acknowledged, and the thread whose
\* disconnect() closed its connection.
NewSession ==
    [ws |-> "none", running |-> FALSE, subscription_id |-> "unset",
     acked |-> FALSE, closed_by |-> 0]

\* A ws_thread_func thread: pc is where run_ws is ("connecting" in
\* websockets.connect, "subscribing" at the recv of connect(), "gather",
\* "finally", "exit"); on is the object the tasks were created on; listener
\* ("start", "recv", "frame", "probe", "done"), processor ("run", "done") and refresh
\* ("run", "cycle", "done") are where the three tasks are; a task that is
\* "done" has returned, one that ended with an exception would be "raised".
\* lost, erred and ponged are history: listen() saw the connection closed or
\* its ping unanswered, listen() caught an error of a frame that is neither,
\* and a ping of listen() was answered.
NewThread ==
    [pc |-> "connecting", on |-> 0, listener |-> "none", processor |-> "none",
     refresh |-> "none", lost |-> FALSE, erred |-> FALSE, ponged |-> FALSE]

sessionRest ==
    <<mints, keep_history, keep_steps, event_cap, obj_cap, answers, enrich, call,
      clock, ticks, heap, known_tokens, update_queue, tokens, min_market_cap,
      ws_running, lpc, rpc, all_tokens, ridx, tokens_refreshed, cycle_log,
      published, callbacks, drain_log, last>>

\* PumpFunFetcher.start_monitoring(use_mock = False), called by the GUI when
\* it is not monitoring. Thread.start() returns once the thread runs: run_ws
\* up to its first await, where self.helius_ws is read, goes with the call.
StartMonitoring ==
    /\ ~running /\ Len(sessions) < MaxSessions
    /\ running' = TRUE
    /\ sessions' = Append(sessions, NewSession)
    /\ helius_ws' = Len(sessions) + 1
    /\ threads' = Append(threads, NewThread)
    /\ UNCHANGED sessionRest

\* PumpFunFetcher.stop_monitoring, called by the GUI when it is monitoring
StopMonitoring ==
    /\ running
    /\ running' = FALSE
    /\ sessions' = IF helius_ws = 0 THEN sessions
                   ELSE [sessions EXCEPT ![helius_ws].running = FALSE]
    /\ UNCHANGED <<helius_ws, threads, sessionRest>>

\* connect(): websockets.connect returns or raises
ConnectOpened(t) ==
    /\ threads[t].pc = "connecting"
    /\ \/ /\ sessions' = [sessions EXCEPT ![t].ws = "open"]
          /\ threads' = [threads EXCEPT ![t].pc = "subscribing"]
       \/ /\ threads' = [threads EXCEPT ![t].pc = "finally"]
          /\ UNCHANGED sessions
    /\ UNCHANGED <<helius_ws, running, sessionRest>>

\* connect(): the answer to logsSubscribe has a result member, or it has none
\* (or the recv raised); after connect() the tasks are created on
\* self.helius_ws as it is then
Subscribed(t) ==
    /\ threads[t].pc = "subscribing"
    /\ \/ /\ sessions[t].ws = "open"
          /\ sessions' = [sessions EXCEPT ![t].subscription_id = "set",
                                          ![t].acked = TRUE]
          /\ threads' = [threads EXCEPT ![t].pc = "gather", ![t].on = helius_ws,
                                        ![t].listener = "start",
                                        ![t].processor = "run",
                                        ![t].refresh = "run"]
       \/ /\ threads' = [threads EXCEPT ![t].pc = "finally"]
          /\ UNCHANGED sessions
    /\ UNCHANGED <<helius_ws, running, sessionRest>>

\* listen() up to its first await: the first task the event loop runs
ListenStart(t) ==
    /\ threads[t].listener = "start"
    /\ LET o == threads[t].on IN
         /\ sessions' = [sessions EXCEPT ![o].running = TRUE]
         /\ threads' = [threads EXCEPT ![t].listener =
                           IF sessions[o].ws = "open" THEN "recv" ELSE "done"]
    /\ UNCHANGED <<helius_ws, running, sessionRest>>

\* listen(): a frame is received; or the recv or json.loads raised an
\* exception that is neither TimeoutError nor ConnectionClosed, which is
\* printed, and the test of the while follows at once
ListenFrame(t) ==
    /\ threads[t].listener = "recv"
    /\ LET o == threads[t].on IN
         /\ sessions[o].ws = "open"
         /\ \/ threads' = [threads EXCEPT ![t].listener = "frame"]
            \/ threads' = [threads EXCEPT ![t].erred = TRUE,
                                          ![t].listener =
                              IF sessions[o].running THEN "recv" ELSE "done"]
    /\ UNCHANGED <<helius_ws, sessions, running, sessionRest>>

\* listen(): the frame is handled; then the test of the while
ListenLoop(t) ==
    /\ threads[t].listener = "frame"
    /\ LET o == threads[t].on IN
         threads' = [threads EXCEPT ![t].listener =
                       IF sessions[o].running /\ sessions[o].ws = "open"
                       THEN "recv" ELSE "done"]
    /\ UNCHANGED <<helius_ws, sessions, running, sessionRest>>

\* the answered ping taken for a lost connection
ListenPong_Ends(t) ==
    /\ threads[t].listener = "probe"
    /\ threads' = [threads EXCEPT ![t].ponged = TRUE, ![t].listener = "done"]
    /\ UNCHANGED <<helius_ws, sessions, running, sessionRest>>

\* listen(): no frame came within the 60 seconds of the recv: the ping is
\* sent and its pong awaited
ListenIdle(t) ==
    /\ threads[t].listener = "recv"
    /\ sessions[threads[t].on].ws = "open"
    /\ threads' = [threads EXCEPT ![t].listener = "probe"]
    /\ UNCHANGED <<helius_ws, sessions, running, sessionRest>>

\* listen(): the pong came within its 10 seconds; then the test of the while
ListenPong(t) ==
    /\ threads[t].listener = "probe"
    /\ LET o == threads[t].on IN
         threads' = [threads EXCEPT ![t].ponged = TRUE,
                                    ![t].listener =
                       IF sessions[o].running /\ sessions[o].ws = "open"
                       THEN "recv" ELSE "done"]
    /\ UNCHANGED <<helius_ws, sessions, running, sessionRest>>

\* listen(): websockets.ConnectionClosed in the recv, or the ping failed or
\* its pong did not come in time: the break, and listen() returns
ListenBroken(t) ==
    /\ threads[t].listener \in {"recv", "probe"}
    /\ threads' = [threads EXCEPT ![t].listener = "done", ![t].lost = TRUE]
    /\ UNCHANGED <<helius_ws, sessions, running, sessionRest>>

\* _process_queue_async: the test of its while fails
ProcessorExit(t) ==
    /\ threads[t].processor = "run" /\ threads[t].listener # "start"
    /\ ~running
    /\ threads' = [threads EXCEPT ![t].processor = "done"]
    /\ UNCHANGED <<helius_ws, sessions, running, sessionRest>>

\* periodic_refresh: the test of its while holds, the cycle begins
RefreshCycle(t) ==
    /\ threads[t].refresh = "run" /\ threads[t].listener # "start"
    /\ sessions[threads[t].on].running
    /\ threads' = [threads EXCEPT ![t].refresh = "cycle"]
    /\ UNCHANGED <<helius_ws, sessions, running, sessionRest>>

\* periodic_refresh: the cycle is over, back to the test of the while
RefreshCycled(t) ==
    /\ threads[t].refresh = "cycle"
    /\ threads' = [threads EXCEPT ![t].refresh = "run"]
    /\ UNCHANGED <<helius_ws, sessions, running, sessionRest>>

\* periodic_refresh: the test of its while fails
RefreshExit(t) ==
    /\ threads[t].refresh = "run" /\ threads[t].listener # "start"
    /\ ~sessions[threads[t].on].running
    /\ threads' = [threads EXCEPT ![t].refresh = "done"]
    /\ UNCHANGED <<helius_ws, sessions, running, sessionRest>>

\* asyncio.gather returns
Gathered(t) ==
    /\ threads[t].pc = "gather"
    /\ threads[t].listener = "done" /\ threads[t].processor = "done"
    /\ threads[t].refresh = "done"
    /\ threads' = [threads EXCEPT ![t].pc = "finally"]
    /\ UNCHANGED <<helius_ws, sessions, running, sessionRest>>

\* finally: await self.helius_ws.disconnect(), on self.helius_ws as it is
\* then. The close() of a connection of another thread's event loop closes
\* it or raises.
Disconnect(t) ==
    /\ threads[t].pc = "finally"
    /\ threads' = [threads EXCEPT ![t].pc = "exit"]
    /\ LET d == helius_ws IN
         \/ sessions' = [sessions EXCEPT
                            ![d].ws = IF @ = "open" THEN "closed" ELSE @,
                            ![d].closed_by = IF sessions[d].ws = "open" THEN t ELSE @,
                            ![d].subscription_id = "unset"]
         \/ d # t /\ sessions[d].ws = "open" /\ UNCHANGED sessions
    /\ UNCHANGED <<helius_ws, running, sessionRest>>

\* the steps a thread takes when its event loop runs and the network answers
ThreadStep(t) ==
    \/ ConnectOpened(t)
    \/ Subscribed(t)
    \/ ListenStart(t)
    \/ ListenFrame(t)
    \/ ListenLoop(t)
    \/ ListenIdle(t)
    \/ ListenPong(t)
    \/ ProcessorExit(t)
    \/ RefreshCycle(t)
    \/ RefreshCycled(t)
    \/ RefreshExit(t)
    \/ Gathered(t)
    \/ Disconnect(t)

\* start_monitoring() has just been called for the first time.
InitSession ==
    /\ Start({}, FALSE, 0, 0, {}, <<>>, "done")
    /\ enrich = NoCall /\ call = NoCall /\ keep_steps = FALSE
    /\ helius_ws = 1 /\ sessions = <<NewSession>> /\ threads = <<NewThread>>

SessionNext ==
    \/ StartMonitoring
    \/ StopMonitoring
    \/ \E t \in 1..Len(threads) : ThreadStep(t)
    \/ \E t \in 1..Len(threads) : ListenBroken(t)

\* Every task of every thread goes on; the connection may stay up and the GUI
\* may stay idle.
SpecSession ==
    /\ InitSession /\ [][SessionNext]_vars
    /\ \A t \in 1..MaxSessions :
         /\ WF_vars(t <= Len(threads) /\ (ListenStart(t) \/ ListenFrame(t) \/ ListenLoop(t)
                                          \/ ListenIdle(t) \/ ListenPong(t)))
         /\ WF_vars(t <= Len(threads) /\ (RefreshCycle(t) \/ RefreshCycled(t) \/ RefreshExit(t)))
         /\ WF_vars(t <= Len(threads) /\ ThreadStep(t))

\* One session from start_monitoring() to the end of its thread: monitoring
\* is stopped at any moment or never, and is not started again.
ProbeNext ==
    \/ StopMonitoring
    \/ ThreadStep(1)
    \/ ListenBroken(1)

SpecProbe == InitSession /\ [][ProbeNext]_vars

\* A registry of one token more than a cycle's batch, and the listener gone:
\* BatchTokens buy notifications for as many untracked mints arrived at time 0
\* while every source was down, the queue processor drained the queue, and
\* listen() returned on websockets.ConnectionClosed. The refresh task and the
\* queue processor run on, the sources stay down, and the run is followed for
\* BatchEvents puts.
BatchTokens == TOKENS_PER_REFRESH + 1
BatchEvents == TOKENS_PER_REFRESH + 2

BatchRegistry == [a \in 1..BatchTokens |-> ImplicitToken(a, "buy", SourcesDown, 0)]

InitBatch ==
    /\ Start({}, TRUE, BatchEvents, BatchTokens, {SourcesDown}, BatchRegistry, "done")
    /\ enrich = NoCall /\ call = NoCall /\ keep_steps = FALSE /\ NoSessions

BatchNext ==
    \/ RefreshWake
    \/ RefreshIter
    \/ RefreshPaced
    \/ ProcessQueue
    \/ Tick

SpecBatch == InitBatch /\ [][BatchNext]_vars

\* The refresh task with iterations that raise: a registry of FaultTokens
\* tokens created at time 0, the listener gone, the sources down, and every
\* refresh of a token either going through or raising in its try block.
FaultTokens == 3

InitFault ==
    /\ Start({}, TRUE, DeepEvents, FaultTokens, {SourcesDown, SourcesRaise},
             [a \in 1..FaultTokens |-> ImplicitToken(a, "buy", SourcesDown, 0)],
             "done")
    /\ enrich = NoCall /\ call = NoCall /\ keep_steps = FALSE /\ NoSessions

SpecFault == InitFault /\ [][BatchNext]_vars


\* The pipeline without an end: one hot mint and one mint more than a cycle's
\* batch besides it, the sources down, no history kept. The refresh task, the
\* queue processor and the clock go on for ever; the chain may fall silent.
StarveMints == TOKENS_PER_REFRESH + 2

InitStarve ==
    /\ Start(1..StarveMints, FALSE, 0, 2 * StarveMints, {SourcesDown}, <<>>, "recv")
    /\ enrich = NoCall /\ call = NoCall /\ keep_steps = FALSE /\ NoSessions

StarveNext ==
    \/ HotRecv
    \/ InTurnSettled
    \/ DrainedWake
    \/ RefreshIter
    \/ DrainedPaced
    \/ ProcessQueue
    \/ TickShift

SpecStarve ==
    /\ InitStarve /\ [][StarveNext]_vars
    /\ WF_vars(DrainedWake) /\ WF_vars(RefreshIter) /\ WF_vars(DrainedPaced)
    /\ WF_vars(ProcessQueue) /\ WF_vars(TickShift)

\* ------------------------------------------------------------------ claims
Created(a)   == {i \in 1..Len(published) : published[i] = <<"new", a>>}
Evicted(a)   == {i \in 1..Len(published) : published[i] = <<"remove", a>>}
Updated(a)   == {i \in 1..Len(published) : published[i] = <<"update", a>>}

\* the events the step just taken put on the queue
JustPut == SubSeq(update_queue, last.qlen + 1, Len(update_queue))

\* C1: for every address at most one Created ("new") event is ever put on the
\* change queue, also when a refresh cycle evicts the address and a later
\* trade references it again.
C1_AtMostOneCreated == \A a \in mints : Cardinality(Created(a)) <= 1

\* C2: for every address, every Updated event is preceded by a Created event
\* for that address, and no Updated event follows an Evicted event for it.
C2_PerKeyOrder ==
    \A a \in mints : \A u \in Updated(a) :
        /\ \E c \in Created(a) : c < u
        /\ \A e \in Evicted(a) : u < e

\* C3: the sequence of (action, address) callback calls is the sequence of
\* (action, address) pairs put on the queue, up to the events drained so far:
\* one call per drained event, with the event's action, in the order of the puts.
C3_CallbackPerEvent ==
    callbacks = SubSeq(published, 1, Len(published) - Len(update_queue))

\* C4: a buy or sell notification whose resolved mint is not in the registry
\* inserts the address and puts exactly one event, a Created one, and the
\* entity inserted has (buys, sells) = (1, 0) for a buy and (0, 1) for a sell.
C4_ImplicitCreation ==
    (last.op = "trade" /\ ~last.tracked) =>
        /\ Len(JustPut) = 1
        /\ JustPut[1].action = "new"
        /\ heap[JustPut[1].ref].address = last.mint
        /\ Tracked(last.mint)
        /\ RefOf(last.mint) = JustPut[1].ref
        /\ published[Len(published)] = <<"new", last.mint>>
        /\ LET tok == heap[RefOf(last.mint)] IN
             <<tok.buys, tok.sells>> = IF last.type = "buy" THEN <<1, 0>> ELSE <<0, 1>>

C4_Witness ==
    /\ last.op = "trade" /\ ~last.tracked /\ last.type = "sell"
    /\ Tracked(last.mint)
    /\ heap[RefOf(last.mint)].sells = 1

\* C5: the entity the consumer observes when it drains an event has the
\* values the entity had when the event was put.
C5_SnapshotAtPut ==
    \A i \in 1..Len(drain_log) : drain_log[i].seen = drain_log[i].snap

\* C6: in a refresh cycle an entity within the retention window is evicted by
\* the floor rule exactly when its refreshed market cap m has 0 < m < floor;
\* with m = 0 or m >= floor it stays tracked and an Updated event is put.
C6_FloorRule ==
    last.op = "refresh" =>
        LET m == heap[last.ref].market_cap IN
        /\ Len(JustPut) = 1
        /\ JustPut[1].ref = last.ref
        /\ IF 0 < m /\ m < min_market_cap
           THEN JustPut[1].action = "remove" /\ ~Tracked(last.mint)
           ELSE /\ JustPut[1].action = "update"
                /\ Tracked(last.mint) /\ RefOf(last.mint) = last.ref

C6_Witness ==
    /\ last.op = "refresh"
    /\ heap[last.ref].market_cap > 0
    /\ heap[last.ref].market_cap < min_market_cap
    /\ ~Tracked(last.mint)
    /\ ~Aged(heap[last.ref], clock)


\* C7: whatever the chain does, a tracked entity past the retention window is
\* eventually removed from the registry (which puts its Evicted event).
PastRetention(a) == Tracked(a) /\ Aged(heap[RefOf(a)], clock)

C7_AgedEventuallyEvicted ==
    \A a \in 1..StarveMints : PastRetention(a) ~> ~Tracked(a)

\* the addresses of the first n tokens of the cycle's sorted snapshot
Selected(n) == {heap[all_tokens[i]].address : i \in 1..Min(n, Len(all_tokens))}

\* C8: the entities a refresh cycle puts an event for (refreshes or evicts)
\* are among the TOKENS_PER_REFRESH least recently updated ones of the
\* registry at the start of the cycle, so they are at most that many.
C8_BatchLimit ==
    \A i \in 1..Len(cycle_log) : cycle_log[i][2] \in Selected(TOKENS_PER_REFRESH)

\* what a source yields as market cap, when it yields one
DexYieldsZero(r) ==
    /\ r.status = "ok" /\ r.pairs # <<>>
    /\ r.pairs[1].volume_ok
    /\ r.pairs[1].fdv = 0 /\ r.pairs[1].marketCap = 0
DexFails(r) ==
    \/ r.status # "ok" \/ r.pairs = <<>>
    \/ ~r.pairs[1].volume_ok
    \/ DexYieldsZero(r)
BirdeyeFails(r) == r.status # "ok" \/ ~r.has_data \/ r.mc = 0
PumpFails(r) == r.status # "ok" \/ r.usd_market_cap = 0

\* the five members of Metrics
Metrics(cd) ==
    [market_cap |-> cd.market_cap, volume_5m |-> cd.volume_5m,
     volume_1h |-> cd.volume_1h, bonding_progress |-> cd.bonding_progress,
     holders |-> cd.holders]

\* C9: when source 1 yields market cap 0 and source 2 a positive one, source 3
\* is not asked and every member of the Metrics returned is source 2's value
\* or the default: none carries a value read from source 1.
C9_SecondSourceOnly ==
    (/\ enrich.pc = "done"
     /\ DexYieldsZero(enrich.r1)
     /\ enrich.r2.status = "ok" /\ enrich.r2.has_data /\ enrich.r2.mc > 0) =>
        /\ enrich.queried = <<"dex", "birdeye">>
        /\ Metrics(enrich.cd) =
             [market_cap |-> enrich.r2.mc,
              volume_5m |-> enrich.r2.v24h \div 288,
              volume_1h |-> 0,
              bonding_progress |-> Min(100, (enrich.r2.mc * 100) \div GRADUATION_CAP),
              holders |-> IF enrich.r2.holder = 0 THEN 1 ELSE enrich.r2.holder]

\* C10: when no source yields a strictly positive market cap, the Metrics
\* returned are market cap 0, both volumes 0, progress 0 and holder count 1,
\* whatever else the failed sources answered.
C10_AllFailDefaults ==
    (/\ enrich.pc = "done"
     /\ DexFails(enrich.r1) /\ BirdeyeFails(enrich.r2) /\ PumpFails(enrich.r3)) =>
        Metrics(enrich.cd) =
            [market_cap |-> 0, volume_5m |-> 0, volume_1h |-> 0,
             bonding_progress |-> 0, holders |-> 1]

\* C11: the bonding progress a call of fetch_bonding_curve_data returns is in
\* [0, 100] for every market cap a source reports, a negative one and one above
\* the graduation cap included.
C11_ProgressInRange ==
    enrich.pc = "done" =>
        /\ enrich.cd.bonding_progress >= 0
        /\ enrich.cd.bonding_progress <= 100

\* the event type a marker stands for
CategoryOf(m) ==
    CASE m = "Create" -> "create" [] m = "Buy" -> "buy" [] m = "Sell" -> "sell"

MarkedLines(logs) == {i \in 1..Len(logs) : logs[i] \cap Markers # {}}

\* C12: a notification whose error flag is set, or none of whose log lines
\* holds a marker, classifies as none; any other classifies as the category of
\* a marker of the last line that holds one, so a bundle whose only marker is
\* Create gives create and one whose only marker is Sell gives sell.
C12_LastMarkerWins ==
    call.pc = "classified" =>
        LET logs == call.frame.logs
            marked == MarkedLines(logs)
        IN  /\ IF call.frame.err \/ marked = {} THEN call.type = "none"
               ELSE LET l == CHOOSE i \in marked : \A j \in marked : j <= i
                    IN  \E m \in logs[l] : call.type = CategoryOf(m)
            /\ \A m \in Markers :
                 (~call.frame.err /\ marked # {} /\ \A i \in marked : logs[i] = {m})
                     => call.type = CategoryOf(m)

C12_Witness ==
    /\ call.pc = "classified"
    /\ ~call.frame.err
    /\ call.frame.logs = <<{"Create"}, {"Sell"}, {}>>
    /\ call.type = "sell"

\* C13: a call of the resolver makes at most 3 attempts; it ends at the first
\* attempt answered with a result (found, that attempt's detail) or with an
\* explicit error (not found), and not found after the third attempt otherwise.
C13_BoundedResolve ==
    call.pc = "resolved" =>
        LET decisive == {i \in 1..3 : call.resps[i].kind \in {"error", "result"}}
        IN  /\ call.res.attempts <= 3
            /\ IF decisive = {}
               THEN ~call.res.found /\ call.res.attempts = 3
               ELSE LET i == CHOOSE x \in decisive : \A y \in decisive : x <= y
                    IN  /\ call.res.attempts = i
                        /\ call.res.found <=> call.resps[i].kind = "result"
                        /\ call.res.found => call.res.tx = call.resps[i].tx

C13_Witness ==
    /\ call.pc = "resolved"
    /\ call.resps[1].kind = "null"
    /\ call.resps[2].kind = "error"
    /\ call.resps[3].kind = "result"
    /\ ~call.res.found
    /\ call.res.attempts = 2
\* whether the address was a key of the registry before the step just taken
WasTracked(a) == \E i \in 1..Len(last.was) : last.was[i].address = a

\* the step just taken left every Token of the registry as it was
RegistryKept == Registry = last.was

\* the step just taken put no event
NothingPut == Len(update_queue) = last.qlen /\ JustPut = <<>>

\* C14: a step of handle_token_creation whose resolved mint was a key of the
\* registry is a no-op: the registry is as it was, no event is put, and no
\* request but the transaction fetch was made.
C14_KnownCreationNoOp ==
    (keep_steps /\ last.op \in {"create", "create_dropped"} /\ WasTracked(last.mint)) =>
        /\ last.op = "create_dropped"
        /\ RegistryKept
        /\ NothingPut
        /\ last.calls \cap {"meta", "curve", "holders"} = {}

C14_Witness ==
    /\ keep_steps
    /\ last.op = "create_dropped"
    /\ WasTracked(last.mint)
    /\ Tracked(last.mint)
    /\ heap[RefOf(last.mint)].buys + heap[RefOf(last.mint)].sells > 0

\* C15: a handler step, of a creation or of a trade, whose resolution found no
\* transaction or no mint drops the event: the registry is as it was, no
\* event is put, and listen() is back at its receive.
C15_UnresolvedDropped ==
    (keep_steps /\ last.op \in {"create", "create_dropped", "trade", "trade_dropped"}
                /\ last.mint = NoMint) =>
        /\ last.op \in {"create_dropped", "trade_dropped"}
        /\ RegistryKept
        /\ NothingPut
        /\ last.calls = {"tx"}
        /\ lpc = "recv"

C15_Witness ==
    /\ keep_steps
    /\ last.op = "trade_dropped"
    /\ last.mint = NoMint
    /\ last.was # <<>>
    /\ lpc = "recv"

\* C16: a notification whose error flag is set is skipped: no handler is
\* entered, no request is made, the registry is as it was and no event is put.
C16_ErrSkipped ==
    (keep_steps /\ last.type = "err") =>
        /\ last.op = "skipped"
        /\ lpc # "settle"
        /\ last.calls = {}
        /\ RegistryKept
        /\ NothingPut

C16_Witness ==
    /\ keep_steps
    /\ last.type = "err"
    /\ last.op = "skipped"
    /\ last.was # <<>>

\* C17: a trade step on an address that was tracked adds one to the counter of
\* its side and to no other, sets last_update to now, puts exactly one update
\* event of the Token, and leaves every other field of the Token, every other
\* Token and the order of the registry as they were.
C17_TrackedTrade ==
    (keep_steps /\ last.op = "trade" /\ WasTracked(last.mint)) =>
        LET i == CHOOSE x \in 1..Len(last.was) : last.was[x].address = last.mint
            old == last.was[i]
            new == Registry[i]
        IN  /\ Len(Registry) = Len(last.was)
            /\ \A j \in 1..Len(last.was) : j # i => Registry[j] = last.was[j]
            /\ IF last.type = "buy"
               THEN new.buys = old.buys + 1 /\ new.sells = old.sells
               ELSE new.sells = old.sells + 1 /\ new.buys = old.buys
            /\ new.last_update = clock
            /\ \A f \in DOMAIN old \ {"buys", "sells", "last_update"} : new[f] = old[f]
            /\ Len(JustPut) = 1
            /\ JustPut[1].action = "update"
            /\ JustPut[1].ref = known_tokens[i]
            /\ published[Len(published)] = <<"update", last.mint>>

C17_Witness ==
    /\ keep_steps
    /\ last.op = "trade" /\ last.type = "sell"
    /\ WasTracked(last.mint)
    /\ \E i \in 1..Len(last.was) :
         /\ last.was[i].address = last.mint
         /\ last.was[i].last_update < clock
         /\ last.was[i].market_cap > 0
         /\ Registry[i].sells = last.was[i].sells + 1
\* C18: once stop_monitoring has been called in the first session, and unless
\* monitoring is started again, the thread comes to its end (listen() has
\* returned, the refresh loop is left, disconnect() was called) and the
\* connection is closed.
C18_StopEndsSession ==
    (~running /\ Len(threads) = 1) ~>
        (running \/ (threads[1].pc = "exit" /\ sessions[1].ws # "open"))

OpenSessions == {o \in 1..Len(sessions) : sessions[o].ws = "open"}

\* C19: at most one session has an open connection, and the connection of a
\* session is closed by the disconnect() of its own thread only.
C19_OneSession ==
    /\ Cardinality(OpenSessions) <= 1
    /\ \A o \in 1..Len(sessions) : sessions[o].closed_by \in {0, o}

\* C20: listen() runs on a session object only if the subscription of that
\* object was acknowledged.
C20_ListenOnlyAcked ==
    \A t \in 1..Len(threads) :
        threads[t].listener \in {"start", "recv", "frame"} =>
            sessions[threads[t].on].acked

\* C21: a listen() that lost its connection (closed by the peer, or the ping
\* unanswered) does not return: it ends with an exception its caller sees.
C21_LossRaised ==
    \A t \in 1..Len(threads) :
        threads[t].lost => threads[t].listener = "raised"

\* C22: once listen() has caught an error of a frame that is neither a
\* timeout nor a closed connection, it is at no later frame.
C22_ErrorEndsListen ==
    \A t \in 1..Len(threads) :
        threads[t].erred => threads[t].listener # "frame"

\* C23: every token of the registry, and every token an event of the queue
\* or of the last drain carries, has a holder count of at least 1, whatever
\* the sources answered.
C23_HoldersAtLeastOne ==
    /\ \A i \in 1..Len(known_tokens) : heap[known_tokens[i]].holders >= 1
    /\ \A i \in 1..Len(update_queue) :
          /\ update_queue[i].snap.holders >= 1
          /\ heap[update_queue[i].ref].holders >= 1
    /\ \A i \in 1..Len(drain_log) :
          drain_log[i].snap.holders >= 1 /\ drain_log[i].seen.holders >= 1

\* a refresh for which getTokenAccounts listed no account has published its
\* update
C23_Witness ==
    /\ last.op = "refresh" /\ last.type = "update"
    /\ heap[last.ref].market_cap = 2000
    /\ heap[last.ref].holders = 1
    /\ Tracked(last.mint)

\* C24: in every step, the last_update of every token that is tracked before
\* the step and still exists after it does not decrease, and it changes only
\* if the step is a trade of that token or a refresh of it.
C24_LastUpdateMonotone ==
    [][\A r \in Range(known_tokens) \cap DOMAIN heap' :
          /\ heap'[r].last_update >= heap[r].last_update
          /\ heap'[r].last_update # heap[r].last_update =>
                last'.op \in {"trade", "refresh"} /\ last'.ref = r]_vars

\* a token is still tracked after a refresh or a trade that came later than
\* its creation
C24_Witness ==
    /\ last.op \in {"trade", "refresh"} /\ last.tracked
    /\ Tracked(last.mint) /\ RefOf(last.mint) = last.ref
    /\ heap[last.ref].last_update > heap[last.ref].created_at

\* C25: the task of the refresh loop does not end while the running flag of
\* the client is set, and after an iteration that raised the cycle is at the
\* token that follows the failed one in its snapshot, nothing having been
\* put or removed for the failed one.
C25_FailureAbsorbed ==
    /\ ws_running => rpc # "done"
    /\ last.op = "refresh_failed" =>
          /\ rpc = "loop"
          /\ ridx - 1 \in 1..Len(all_tokens) /\ all_tokens[ridx - 1] = last.ref
          /\ Tracked(last.mint)
          /\ Len(update_queue) = last.qlen

\* the refresh of a token has raised, and the token after it in the snapshot
\* is refreshed and its update put
C25_Witness ==
    /\ last.op = "refresh" /\ last.type = "update"
    /\ ridx > 2 /\ tokens_refreshed = 1
    /\ cycle_log = <<<<"update", last.mint>>>>

\* C26: after a drain, an address whose last drained event is a "remove" is
\* not in the cache of the fetcher, and no token that a drained event carried
\* and that is older than the retention window is in it.
C26_EvictedNotCached ==
    \A i \in 1..Len(drain_log) :
        LET e == drain_log[i] IN
        /\ (/\ e.action = "remove"
            /\ \A j \in (i + 1)..Len(drain_log) :
                  drain_log[j].seen.address # e.seen.address)
           => tokens[e.seen.address] = 0
        /\ Aged(e.seen, clock) =>
              \/ tokens[e.seen.address] = 0
              \/ heap[tokens[e.seen.address]] # e.seen

\* C27: a call of fetch_bonding_curve_data ends with a dict of the metrics
\* for every answer of the three sources, and a call of fetch_holder_count
\* ends with an integer of at least 1, which is 1 if the enumeration failed
\* or listed nothing.
C27_NeverRaise ==
    /\ call.pc = "enriched" =>
          /\ DOMAIN call.cd = DOMAIN curve_default
          /\ \A f \in DOMAIN call.cd : call.cd[f] \in Int
    /\ call.pc = "counted" =>
          /\ call.count \in Nat /\ call.count >= 1
          /\ (call.resp.kind # "result" \/ call.resp.count = 0) => call.count = 1

\* the enumeration raised and the call has ended
C27_Witness ==
    /\ call.pc = "counted" /\ call.resp.kind = "exc" /\ call.count = 1

\* C28: an iteration of the refresh loop on a token older than the retention
\* window removes it from the registry and puts one "remove" event, the
\* token being as it was before (nothing was fetched for it), and the events
\* of the cycle hold that one "remove" for its address and no "update".
C28_AgedEvicted ==
    [][(rpc = "loop" /\ LoopGoesOn /\ ridx' = ridx + 1
           /\ Aged(heap[all_tokens[ridx]], clock)) =>
         LET r == all_tokens[ridx]
             a == heap[r].address
         IN  /\ \A i \in 1..Len(known_tokens') :
                   known_tokens'[i] # r /\ heap'[known_tokens'[i]].address # a
             /\ update_queue' = Append(update_queue,
                                       [action |-> "remove", ref |-> r, snap |-> heap[r]])
             /\ heap'[r] = heap[r]
             /\ {i \in 1..Len(cycle_log') : cycle_log'[i][2] = a} = {Len(cycle_log')}
             /\ cycle_log'[Len(cycle_log')] = <<"remove", a>>]_vars

\* a cycle that has refreshed a token evicts another one, which is older
\* than the retention window
C28_Witness ==
    /\ last.op = "age_evict" /\ last.tracked /\ ~Tracked(last.mint)
    /\ tokens_refreshed >= 1
    /\ cycle_log[Len(cycle_log)] = <<"remove", last.mint>>
    /\ Aged(heap[last.ref], clock)

\* C29: after a notification whose processing raised, listen() is at the
\* receive of the next frame, the refresh task and the queue processor have
\* not ended, and nothing was inserted, changed or put.
C29_NotificationAbsorbed ==
    last.op = "raised" =>
        /\ lpc = "recv"
        /\ ws_running /\ running /\ rpc # "done"
        /\ RegistryKept /\ NothingPut

\* the enrichment or the insertion of a traded mint raised while another
\* token was tracked or queued
C29_Witness ==
    /\ last.op = "raised" /\ last.type \in {"buy", "sell"}
    /\ lpc = "recv"
    /\ published # <<>>

\* C30: the buy/sell ratio of a token is buys over max(sells, 1): the divisor
\* is never 0, the ratio is not negative, and it is the buy counter when no
\* sell was counted.
C30_RatioDefined ==
    call.pc = "divided" =>
        /\ call.ratio.den >= 1
        /\ call.ratio.num >= 0
        /\ call.ratio.num = call.buys
        /\ call.ratio.den = IF call.sells > 1 THEN call.sells ELSE 1
        /\ call.sells = 0 => call.ratio.num = call.buys * call.ratio.den

\* the ratio of a token with buys and no sell has been read
C30_Witness ==
    /\ call.pc = "divided" /\ call.sells = 0 /\ call.buys = MaxTrades
    /\ call.ratio = [num |-> MaxTrades, den |-> 1]

\* C31: the change queue is never full, whatever its length, so that no put
\* has to wait even if nothing is drained, and every step of the refresh
\* task that publishes has lengthened the queue by its event.
C31_PutNeverBlocks ==
    /\ ~QueueFull(update_queue)
    /\ last.op \in {"refresh", "age_evict"} /\ last.tracked
          => Len(update_queue) = last.qlen + 1

\* every event of the run has been put and none was drained
C31_Witness ==
    /\ Len(update_queue) = BatchEvents /\ Len(published) = BatchEvents
    /\ callbacks = <<>>
    /\ last.op \in {"refresh", "age_evict"}

LastEvent(a) ==
    LET idx == {i \in 1..Len(published) : published[i][2] = a} IN
    IF idx = {} THEN "absent"
    ELSE published[CHOOSE i \in idx : \A j \in idx : j <= i][1]

\* C32: an address is a key of the registry if and only if the last event
\* put for it is "new" or "update", and the registry holds one token per
\* key, each under its own address.
C32_RegistryMatchesEvents ==
    /\ \A a \in mints : Tracked(a) <=> LastEvent(a) \in {"new", "update"}
    /\ \A i \in 1..Len(known_tokens) :
          /\ heap[known_tokens[i]].address \in mints
          /\ \A j \in 1..Len(known_tokens) :
                heap[known_tokens[j]].address = heap[known_tokens[i]].address => j = i

\* an address that was tracked has been evicted by the refresh task
C32_Witness ==
    /\ last.op \in {"refresh", "age_evict"} /\ last.type = "remove"
    /\ LastEvent(last.mint) = "remove"
    /\ ~Tracked(last.mint)
    /\ Cardinality(Created(last.mint)) = 1

\* C33: among the callbacks for one address, the callback that follows a
\* "remove" is a "new": no "update" and no second "remove" comes after a
\* "remove" before the address is created again.
C33_CallbackOrder ==
    \A i \in 1..Len(callbacks) : \A j \in (i + 1)..Len(callbacks) :
        (/\ callbacks[i][1] = "remove"
         /\ callbacks[j][2] = callbacks[i][2]
         /\ \A k \in (i + 1)..(j - 1) : callbacks[k][2] # callbacks[i][2])
        => callbacks[j][1] = "new"

\* C34: in a finished call of the resolver a request is never followed
\* directly by another request: time.sleep(3) comes between any two
\* consecutive attempts, whatever the earlier attempt ended with.
C34_DelayBetweenAttempts ==
    call.pc = "resolved" =>
        \A i \in 1..(Len(call.res.trace) - 1) :
            ~(call.res.trace[i] = "post" /\ call.res.trace[i + 1] = "post")

\* C35: when listen() of the first session has returned because the
\* connection was lost, and stop_monitoring() has not been called, the thread
\* eventually leaves its gather and gets through disconnect(), or
\* stop_monitoring() is called after all.
C35_LossEndsSession ==
    (Len(threads) = 1 /\ running /\ threads[1].lost)
        ~> (threads[1].pc = "exit" \/ ~running)

\* C36: an iteration of the refresh loop that refreshes a token leaves the
\* address, the name, the symbol, the creation time, the buy count and the
\* sell count of every token as they were: of the refreshed token only the
\* market cap, the bonding progress, the 5-minute volume, the holder count
\* and the last update may differ.
C36_RefreshKeepsIdentity ==
    [][(rpc = "loop" /\ rpc' = "pace") =>
          \A r \in (DOMAIN heap) \cap (DOMAIN heap') :
              /\ heap'[r].address = heap[r].address
              /\ heap'[r].name = heap[r].name
              /\ heap'[r].symbol = heap[r].symbol
              /\ heap'[r].created_at = heap[r].created_at
              /\ heap'[r].buys = heap[r].buys
              /\ heap'[r].sells = heap[r].sells]_vars

\* a refresh has just stamped a token that was created by a trade earlier, and
\* its update is on the queue
C36_Witness ==
    /\ last.op = "refresh" /\ last.type = "update" /\ rpc = "pace"
    /\ last.ref \in DOMAIN heap
    /\ heap[last.ref].buys + heap[last.ref].sells >= 1
    /\ heap[last.ref].last_update > heap[last.ref].created_at
    /\ Len(update_queue) > last.qlen

\* C37: in every step of the listener, the refresh task and the queue
\* processor, buys + sells of a token that is tracked before and after the
\* step grows by one if the step is a trade notification applied to that token
\* and stays as it is otherwise; a token the step inserts starts at 0 on the
\* creation path and at 1 when a trade created it. Hence, in every
\* interleaving, buys + sells of a tracked token is its initial count plus
\* the number of trades applied to it since its insertion.
C37_TradesCounted ==
    [][/\ \A r \in Range(known_tokens) \cap Range(known_tokens') :
             heap'[r].buys + heap'[r].sells =
                 heap[r].buys + heap[r].sells +
                 (IF /\ published' # published
                     /\ last'.op = "trade" /\ last'.tracked /\ last'.ref = r
                  THEN 1 ELSE 0)
       /\ \A r \in Range(known_tokens') \ Range(known_tokens) :
             heap'[r].buys + heap'[r].sells =
                 (IF last'.op = "create" THEN 0 ELSE 1)]_vars

\* a token inserted by the creation path was refreshed and then traded: two
\* updates were put for it and one trade is counted
C37_Witness ==
    /\ last.op = "trade" /\ last.tracked /\ Tracked(last.mint)
    /\ published = <<<<"new", last.mint>>, <<"update", last.mint>>,
                     <<"update", last.mint>>>>
    /\ heap[last.ref].buys + heap[last.ref].sells = 1

InitIxs(tx) ==
    {i \in 1..Len(tx.inner) :
        /\ tx.inner[i].type \in {"initializeMint", "initializeMint2"}
        /\ tx.inner[i].mint # NoMint}

TokenBalances(tx) ==
    {i \in 1..Len(tx.post) : tx.post[i] # NoMint /\ tx.post[i] # SOL}

Least(S) == CHOOSE i \in S : \A j \in S : i <= j

\* C38: the mint extracted from a creation transaction is the mint of the
\* first mint-initialization inner instruction that has one; when there is
\* none, the mint of the first token balance that has a mint other than the
\* native one; when there is none either, no mint. The mint a trade is about
\* is found by the second rule alone.
C38_ExtractionOrder ==
    call.pc = "extracted" =>
        LET tx == call.tx IN
        /\ call.created =
              IF InitIxs(tx) # {} THEN tx.inner[Least(InitIxs(tx))].mint
              ELSE IF TokenBalances(tx) # {} THEN tx.post[Least(TokenBalances(tx))]
              ELSE NoMint
        /\ call.traded =
              IF TokenBalances(tx) # {} THEN tx.post[Least(TokenBalances(tx))]
              ELSE NoMint

\* a transaction whose first mint initialization has no mint, whose second
\* has one, and whose balances name another token after the native mint
C38_Witness ==
    /\ call.pc = "extracted"
    /\ Len(call.tx.inner) = 2 /\ Len(call.tx.post) = 2
    /\ call.tx.inner[1].type = "initializeMint2" /\ call.tx.inner[1].mint = NoMint
    /\ call.tx.inner[2].type = "initializeMint"
    /\ call.tx.post[1] = SOL
    /\ call.created = 1 /\ call.traded = 2

\* C39: a listen() whose recv timed out sends its ping and changes nothing
\* else; when the pong comes in time listen() goes back to its recv (unless
\* monitoring was stopped meanwhile), with every session, the registry and
\* the queue as they were; when the ping fails or the pong does not come,
\* listen() returns.
C39_ProbeOnIdle ==
    [][\A t \in 1..Len(threads) :
          /\ (threads[t].listener = "recv" /\ threads'[t].listener = "probe") =>
                /\ sessions[threads[t].on].ws = "open"
                /\ sessions' = sessions
                /\ known_tokens' = known_tokens /\ update_queue' = update_queue
          /\ (threads[t].listener = "probe" /\ threads'[t].listener # "probe") =>
                /\ sessions' = sessions
                /\ known_tokens' = known_tokens /\ update_queue' = update_queue
                /\ threads'[t].pc = threads[t].pc
                /\ IF threads'[t].lost
                   THEN threads'[t].listener = "done"
                   ELSE LET o == threads[t].on IN
                        threads'[t].listener =
                            IF sessions[o].running /\ sessions[o].ws = "open"
                            THEN "recv" ELSE "done"]_vars

\* listen() is back in its recv after an answered ping: no frame was handled
\* before, the connection is open and monitoring goes on
C39_Witness ==
    /\ Len(threads) = 1 /\ running
    /\ threads[1].listener = "recv" /\ threads[1].ponged
    /\ ~threads[1].lost /\ ~threads[1].erred
    /\ sessions[1].ws = "open" /\ sessions[1].running

\* C40: after a creation notification that inserted its token, the token has
\* no buy and no sell and at least one holder, it is the last entry of a
\* registry that is otherwise as before, and the step put exactly one event,
\* the "new" event of that token.
C40_CreatedFresh ==
    (keep_steps /\ last.op = "create") =>
        /\ last.ref \in DOMAIN heap
        /\ heap[last.ref].address = last.mint
        /\ heap[last.ref].buys = 0 /\ heap[last.ref].sells = 0
        /\ heap[last.ref].holders >= 1
        /\ known_tokens # <<>> /\ known_tokens[Len(known_tokens)] = last.ref
        /\ SubSeq(Registry, 1, Len(Registry) - 1) = last.was
        /\ Len(JustPut) = 1
        /\ JustPut[1].action = "new" /\ JustPut[1].ref = last.ref
        /\ published # <<>> /\ published[Len(published)] = <<"new", last.mint>>

\* a creation has inserted its token, some time after the start and while
\* every source was down, and its event waits on the queue
C40_Witness ==
    /\ keep_steps /\ last.op = "create"
    /\ Tracked(last.mint)
    /\ heap[last.ref].holders = 1
    /\ clock > 0 /\ heap[last.ref].created_at = clock
    /\ Len(update_queue) = 1
====
